---------------------------- MODULE Spec2Model ----------------------------
(***************************************************************************)
(* Exam seating engine of src/algo.py (class ExamSeatingArrangement):      *)
(* schedule expansion, clash detection and the floor/room allocator with   *)
(* its capacity bookkeeping, as a state machine.                           *)
(*                                                                         *)
(* Conventions of the model                                                *)
(*  - a roll number is an integer 1..MaxStud standing for a distinct roll  *)
(*    string; a date is an integer whose order is the order of the date    *)
(*    strings; the day of a row is a function of its date (DayOf);         *)
(*  - a timetable cell is the token list that split(';') and strip()       *)
(*    give: <<>> is an empty (NaN) cell, <<"no exam">> the literal, ""     *)
(*    a whitespace-only token;                                             *)
(*  - a room number is its sequence of characters;                         *)
(*  - a dict whose insertion order matters (available_rooms_by_floor) is   *)
(*    a sequence of entries;                                               *)
(*  - temp_allocations.csv is the sequence of its data rows.               *)
(***************************************************************************)
EXTENDS Integers, Sequences, FiniteSets, TLC

\* ------------------------------------------------------------- bounds
MaxRooms == 3
MaxCap == 2
MaxStud == 3
MaxRows == 2

\* ---------------------------------------------------- program constants
max_iterations == 100

None == "None"
Modes == {"dense", "sparse"}
Subjects == {"A", "B"}
Students == 1 .. MaxStud
Digits == {"0", "1", "2", "3", "4", "5", "6", "7", "8", "9"}

\* ------------------------------------------------------ sequence helpers
\* sum(...) and the concatenation of a list of lists, over the elements
\* lo .. hi, by halves
RECURSIVE SumRange(_, _, _)
SumRange(s, lo, hi) ==
  IF lo > hi THEN 0
  ELSE IF lo = hi THEN s[lo]
  ELSE LET mid == (lo + hi) \div 2
       IN SumRange(s, lo, mid) + SumRange(s, mid + 1, hi)

SumSeq(s) == SumRange(s, 1, Len(s))

RECURSIVE FlattenRange(_, _, _)
FlattenRange(ss, lo, hi) ==
  IF lo > hi THEN <<>>
  ELSE IF lo = hi THEN ss[lo]
  ELSE LET mid == (lo + hi) \div 2
       IN FlattenRange(ss, lo, mid) \o FlattenRange(ss, mid + 1, hi)

Flatten(ss) == FlattenRange(ss, 1, Len(ss))

Range(s) == { s[i] : i \in DOMAIN s }

Min(a, b) == IF a <= b THEN a ELSE b

\* pandas Series.unique(): the distinct values in order of first appearance
Unique(s) ==
  LET firsts == SelectSeq([i \in DOMAIN s |-> i],
                          LAMBDA i : \A j \in 1 .. i - 1 : s[j] # s[i])
  IN [k \in DOMAIN firsts |-> s[firsts[k]]]

\* list.remove(x): drops the first element equal to x
RemoveFirst(s, x) ==
  IF \A i \in DOMAIN s : s[i] # x THEN s
  ELSE LET k == CHOOSE i \in DOMAIN s : s[i] = x /\ \A j \in 1 .. i - 1 : s[j] # x
       IN SubSeq(s, 1, k - 1) \o SubSeq(s, k + 1, Len(s))

\* list.sort(key = k, reverse = True): a stable descending sort, equal keys
\* keep their order. keys[i] is the key of the i-th element; the result is
\* the sequence of indices in sorted order.
\* A stable descending sort of the indices 1 .. n: the indices of the
\* largest key in their order, then those of the next key, and so on
SortIdxDesc(n, keys) ==
  LET values == { keys[i] : i \in 1 .. n }
      descending == [r \in 1 .. Cardinality(values) |->
                       CHOOSE v \in values :
                         Cardinality({ w \in values : w > v }) = r - 1]
  IN Flatten([r \in 1 .. Cardinality(values) |->
                SelectSeq([i \in 1 .. n |-> i],
                          LAMBDA i : keys[i] = descending[r])])

StableSortDesc(s, keys) ==
  LET idx == SortIdxDesc(Len(s), keys) IN [k \in 1 .. Len(s) |-> s[idx[k]]]

\* ------------------------------------------------------ schedule expansion
\* The day column of a timetable row: one day name per date.
DayOf(date) == <<"Mon", "Tue", "Wed", "Thu", "Fri">>[date]

\* One cell of the timetable (parse_exam_schedule, the morning or the
\* evening branch): nothing for NaN or the literal "no exam", else the
\* non-blank tokens of the cell, one slot each.
ParseCell(row, session) ==
  LET cell == IF session = "morning" THEN row.morning ELSE row.evening
      subjects == SelectSeq(cell, LAMBDA s : s # "")
  IN IF cell = <<>> \/ cell = <<"no exam">>
     THEN <<>>
     ELSE [i \in 1 .. Len(subjects) |->
             [date |-> row.date, day |-> DayOf(row.date),
              session |-> session, subject_code |-> subjects[i]]]

\* parse_exam_schedule: the rows in table order, morning before evening
RECURSIVE parse_exam_schedule(_)
parse_exam_schedule(schedule_df) ==
  IF schedule_df = <<>> THEN <<>>
  ELSE ParseCell(Head(schedule_df), "morning")
       \o ParseCell(Head(schedule_df), "evening")
       \o parse_exam_schedule(Tail(schedule_df))

\* ------------------------------------------------------------ room table
\* extract_floor_info: the leading character when it is a digit, else '0'
extract_floor_info(roomNo) ==
  IF roomNo # <<>> /\ roomNo[1] \in Digits THEN roomNo[1] ELSE "0"

\* load_data, line 92: exam capacity minus buffer, as computed
AdjustedCapacity(examCapacity, buf) == examCapacity - buf

\* classroom_master after load_data: floor and adjusted_capacity added
LoadRooms(roomTable, buf) ==
  [i \in 1 .. Len(roomTable) |->
     [roomNo |-> roomTable[i].roomNo,
      examCapacity |-> roomTable[i].examCapacity,
      block |-> roomTable[i].block,
      floor |-> extract_floor_info(roomTable[i].roomNo),
      adjusted_capacity |-> AdjustedCapacity(roomTable[i].examCapacity, buf)]]

\* ---------------------------------------------------------------- roster
\* get_rolls_for_subject without unique(): a roster row that is there twice
\* counts twice
get_rolls_with_duplicates(mapping, subject_code) ==
  LET rows == SelectSeq(mapping, LAMBDA r : r.course_code = subject_code)
  IN [i \in 1 .. Len(rows) |-> rows[i].rollno]

\* get_rolls_for_subject: the subject's rows' roll numbers, unique(), in
\* table order
get_rolls_for_subject(mapping, subject_code) ==
  LET rows == SelectSeq(mapping, LAMBDA r : r.course_code = subject_code)
  IN Unique([i \in 1 .. Len(rows) |-> rows[i].rollno])

\* ---------------------------------------------------------------- groups
GroupKey(slot) == [date |-> slot.date, day |-> slot.day, session |-> slot.session]

\* 'evening' sorts before 'morning'
SessionRank(session) == IF session = "evening" THEN 0 ELSE 1

KeyLess(k1, k2) ==
  \/ k1.date < k2.date
  \/ k1.date = k2.date /\ SessionRank(k1.session) < SessionRank(k2.session)

RECURSIVE SortKeys(_)
SortKeys(keys) ==
  IF keys = {} THEN <<>>
  ELSE LET least == CHOOSE k \in keys : \A o \in keys \ {k} : KeyLess(k, o)
       IN <<least>> \o SortKeys(keys \ {least})

\* groupby(..., sort = False): the groups in order of first appearance
GroupedExamsUnsorted(schedule) ==
  Unique([i \in DOMAIN schedule |-> GroupKey(schedule[i])])

\* DataFrame.groupby(['date', 'day', 'session']) iterates its groups in
\* ascending key order (sort = True is the default)
GroupedExams(schedule) == SortKeys({ GroupKey(schedule[i]) : i \in DOMAIN schedule })

\* exams['subject_code'].unique() of one group: rows keep their table order
SubjectCodes(schedule, key) ==
  LET rows == SelectSeq(schedule, LAMBDA s : GroupKey(s) = key)
  IN Unique([i \in 1 .. Len(rows) |-> rows[i].subject_code])

\* ------------------------------------------------------- clash detection
\* itertools.combinations(codes, 2): the pairs (i, j), i < j, in
\* lexicographic order of positions
RECURSIVE Combinations2(_)
Combinations2(codes) ==
  IF Len(codes) < 2 THEN <<>>
  ELSE [j \in 1 .. Len(codes) - 1 |-> <<codes[1], codes[j + 1]>>]
       \o Combinations2(Tail(codes))

\* list(a_set) of roll strings: the iteration order of a set of str follows
\* the strings' hashes, which the interpreter salts per process. hashOrder
\* is the order the process's salt gives the roll strings.
ListOfSet(set, hashOrder) == SelectSeq(hashOrder, LAMBDA r : r \in set)

\* A clash record that keeps one shared student instead of all of them
ClashOfPairOneRoll(pair, key, mapping, hashOrder) ==
  LET rolls1 == Range(get_rolls_for_subject(mapping, pair[1]))
      rolls2 == Range(get_rolls_for_subject(mapping, pair[2]))
      common_rolls == rolls1 \cap rolls2
  IN IF common_rolls # {}
     THEN << [date |-> key.date, day |-> key.day, session |-> key.session,
              subjects |-> <<pair[1], pair[2]>>,
              roll_numbers |-> <<ListOfSet(common_rolls, hashOrder)[1]>>] >>
     ELSE <<>>

\* detect_clashes, lines 199-215: the clash of one pair, if any
ClashOfPair(pair, key, mapping, hashOrder) ==
  LET rolls1 == Range(get_rolls_for_subject(mapping, pair[1]))
      rolls2 == Range(get_rolls_for_subject(mapping, pair[2]))
      common_rolls == rolls1 \cap rolls2
  IN IF common_rolls # {}
     THEN << [date |-> key.date, day |-> key.day, session |-> key.session,
              subjects |-> <<pair[1], pair[2]>>,
              roll_numbers |-> ListOfSet(common_rolls, hashOrder)] >>
     ELSE <<>>

\* detect_clashes, lines 194-215: the body of the loop over groups
ClashesOfGroup(key, schedule, mapping, hashOrder) ==
  LET pairs == Combinations2(SubjectCodes(schedule, key))
  IN Flatten([i \in 1 .. Len(pairs) |->
                ClashOfPair(pairs[i], key, mapping, hashOrder)])

\* detect_clashes: what one call appends to self.clashes
DetectedClashes(schedule, mapping, hashOrder) ==
  LET groups == GroupedExams(schedule)
  IN Flatten([g \in 1 .. Len(groups) |->
                ClashesOfGroup(groups[g], schedule, mapping, hashOrder)])

\* ------------------------------------------------------------- room pool
\* Lines 281-284 without the sort of line 286: the subjects as first seen
SubjectsWithCountsUnsorted(schedule, mapping, key) ==
  LET codes == SubjectCodes(schedule, key)
  IN [i \in 1 .. Len(codes) |->
        [subj |-> codes[i],
         count |-> Len(get_rolls_for_subject(mapping, codes[i]))]]

\* allocate_seats, lines 281-286: (subject, count) pairs, largest count
\* first, equal counts in first-seen order
SubjectsWithCounts(schedule, mapping, key) ==
  LET codes == SubjectCodes(schedule, key)
      pairs == [i \in 1 .. Len(codes) |->
                  [subj |-> codes[i],
                   count |-> Len(get_rolls_for_subject(mapping, codes[i]))]]
  IN StableSortDesc(pairs, [i \in 1 .. Len(pairs) |-> pairs[i].count])

\* defaultdict(list)[floor].append(room), for each room in turn: a floor's
\* entry is created, at the end of the dict, by the first room of that floor,
\* and holds the floor's rooms in the order of the list
GroupByFloor(rooms) ==
  LET floors == Unique([i \in DOMAIN rooms |-> rooms[i].floor])
  IN [e \in DOMAIN floors |->
        [floor |-> floors[e],
         rooms |-> SelectSeq(rooms, LAMBDA room : room.floor = floors[e])]]

FloorCapacity(rooms) ==
  SumSeq([i \in 1 .. Len(rooms) |-> rooms[i].adjusted_capacity])

RoomsOfFloor(byFloor, floor) ==
  LET e == CHOOSE e \in DOMAIN byFloor : byFloor[e].floor = floor
  IN byFloor[e].rooms

\* select_best_floor, lines 364-371: the first floor, in dict order, with
\* the largest total above 0
RECURSIVE LargestFloor(_, _, _)
LargestFloor(byFloor, best_floor, max_capacity) ==
  IF byFloor = <<>> THEN best_floor
  ELSE LET floor_capacity == FloorCapacity(Head(byFloor).rooms)
       IN IF floor_capacity > max_capacity
          THEN LargestFloor(Tail(byFloor), Head(byFloor).floor, floor_capacity)
          ELSE LargestFloor(Tail(byFloor), best_floor, max_capacity)

\* select_best_floor: the first floor, in dict order, that has rooms and
\* whose total is >= remaining_students; else the largest floor; else None
select_best_floor(byFloor, remaining_students) ==
  LET fits == { e \in DOMAIN byFloor :
                  /\ byFloor[e].rooms # <<>>
                  /\ FloorCapacity(byFloor[e].rooms) >= remaining_students }
  IN IF fits # {}
     THEN byFloor[CHOOSE e \in fits : \A o \in fits : e <= o].floor
     ELSE LargestFloor(byFloor, None, 0)

\* select_best_room: dense takes the last room of the list that holds all
\* remaining students, else the first room; sparse takes the first room
select_best_room(rooms, remaining_students, mode) ==
  LET suitable_rooms ==
        SelectSeq(rooms, LAMBDA r : r.adjusted_capacity >= remaining_students)
  IN IF mode = "dense" /\ suitable_rooms # <<>>
     THEN suitable_rooms[Len(suitable_rooms)]
     ELSE rooms[1]

\* allocate_subject_rooms, lines 418-422
StudentsToAllocate(room, remaining_students, mode) ==
  Min(remaining_students,
      IF mode = "sparse" THEN room.adjusted_capacity \div 2
      ELSE room.adjusted_capacity)

\* available_rooms_by_floor[floor].remove(room)
RemoveRoom(byFloor, floor, room) ==
  [e \in DOMAIN byFloor |->
     IF byFloor[e].floor = floor
     THEN [byFloor[e] EXCEPT !.rooms = RemoveFirst(@, room)]
     ELSE byFloor[e]]

\* Lines 454-456 without the re-sort of lines 458-461
ConsumeRoomNoSort(byFloor, floor, room, actual_count) ==
  LET left == room.adjusted_capacity - actual_count
      updated == [room EXCEPT !.adjusted_capacity = left]
  IN [e \in DOMAIN byFloor |->
        IF byFloor[e].floor # floor THEN byFloor[e]
        ELSE LET rooms == byFloor[e].rooms
                 inPlace == [i \in DOMAIN rooms |->
                               IF rooms[i] = room THEN updated ELSE rooms[i]]
             IN [byFloor[e] EXCEPT !.rooms =
                   IF left <= 0 THEN RemoveFirst(inPlace, updated) ELSE inPlace]]

\* allocate_subject_rooms, lines 454-461: the room's dict is updated in
\* place; at <= 0 it leaves the floor's list, else the list is re-sorted
ConsumeRoom(byFloor, floor, room, actual_count) ==
  LET left == room.adjusted_capacity - actual_count
      updated == [room EXCEPT !.adjusted_capacity = left]
  IN [e \in DOMAIN byFloor |->
        IF byFloor[e].floor # floor THEN byFloor[e]
        ELSE LET rooms == byFloor[e].rooms
                 inPlace == [i \in DOMAIN rooms |->
                               IF rooms[i] = room THEN updated ELSE rooms[i]]
             IN [byFloor[e] EXCEPT !.rooms =
                   IF left <= 0 THEN RemoveFirst(inPlace, updated)
                   ELSE StableSortDesc(inPlace,
                          [i \in DOMAIN inPlace |-> inPlace[i].adjusted_capacity])]]

\* --------------------------------------------------- occupancy summary
\* Room numbers read back from the CSV are strings: their order is the
\* characters' order
CharRank(c) ==
  CASE c \in Digits -> (CHOOSE n \in 0 .. 9 : <<"0", "1", "2", "3", "4", "5", "6", "7", "8", "9">>[n + 1] = c)
    [] OTHER -> 10

RECURSIVE StrLess(_, _)
StrLess(a, b) ==
  IF b = <<>> THEN FALSE
  ELSE IF a = <<>> THEN TRUE
  ELSE IF CharRank(Head(a)) # CharRank(Head(b)) THEN CharRank(Head(a)) < CharRank(Head(b))
  ELSE StrLess(Tail(a), Tail(b))

SortRoomKeys(keys) ==
  LET ranked == { << Cardinality({ o \in keys : StrLess(o.room, k.room) }), k >>
                    : k \in keys }
  IN [n \in 1 .. Cardinality(keys) |-> (CHOOSE p \in ranked : p[1] = n - 1)[2]]

\* prepare_seats_left_data without the clip(lower = 0) of line 516
seats_left_unclipped(seating_data) ==
  LET KeyOf(r) == [room |-> r.room, block |-> r.block,
                   exam_capacity |-> r.exam_capacity, floor |-> r.floor]
      keys == SortRoomKeys({ KeyOf(seating_data[i]) : i \in DOMAIN seating_data })
      Allocated(k) ==
        SumSeq([i \in DOMAIN seating_data |->
                  IF KeyOf(seating_data[i]) = k
                  THEN Len(seating_data[i].roll_list) ELSE 0])
  IN [i \in DOMAIN keys |->
        [room_no |-> keys[i].room, exam_capacity |-> keys[i].exam_capacity,
         block |-> keys[i].block, floor |-> keys[i].floor,
         allocated |-> Allocated(keys[i]),
         vacant |-> keys[i].exam_capacity - Allocated(keys[i])]]

\* prepare_seats_left_data: the CSV's rows grouped by (room, block,
\* exam_capacity, floor), the roll lists' lengths summed, vacant clipped at 0
prepare_seats_left_data(seating_data) ==
  LET KeyOf(r) == [room |-> r.room, block |-> r.block,
                   exam_capacity |-> r.exam_capacity, floor |-> r.floor]
      keys == SortRoomKeys({ KeyOf(seating_data[i]) : i \in DOMAIN seating_data })
      Allocated(k) ==
        SumSeq([i \in DOMAIN seating_data |->
                  IF KeyOf(seating_data[i]) = k
                  THEN Len(seating_data[i].roll_list) ELSE 0])
  IN [i \in DOMAIN keys |->
        [room_no |-> keys[i].room, exam_capacity |-> keys[i].exam_capacity,
         block |-> keys[i].block, floor |-> keys[i].floor,
         allocated |-> Allocated(keys[i]),
         vacant |-> IF keys[i].exam_capacity - Allocated(keys[i]) < 0 THEN 0
                    ELSE keys[i].exam_capacity - Allocated(keys[i])]]

\* ------------------------------------------------------------------ state
VARIABLES
  pc,                        \* where main() and allocate_seats() stand
  args,                      \* the constructor's arguments: [buffer, mode]
  workbook,                  \* the input sheets: [in_timetable, in_course_roll_mapping, in_room_capacity]
  sortOrder,                 \* the row order sort_values gives the room sheet
  run,                       \* 1, or 2 once main() was run again
  firstRun,                  \* what the first run left: [mode, clashes, rows]
  tempFile,                  \* temp_allocations.csv: [exists, rows]
  mode,                      \* self.mode
  buffer,                    \* self.buffer
  exam_schedule,             \* self.exam_schedule after load_data
  course_roll_mapping,       \* self.course_roll_mapping
  classroom_master,          \* self.classroom_master, with floor and adjusted_capacity
  clashes,                   \* self.clashes
  no_clashes,                \* main's local: <<>> unbound, else <<the return value of detect_clashes>>
  seats_left,                \* self.seats_left
  groupsLeft,                \* the groups still to iterate (line 267)
  group,                     \* (date, day, session) of the current group
  subjects_with_counts,      \* the subjects still to iterate (line 302)
  processed_subjects,        \* line 275 / 303
  available_rooms_by_floor,  \* the group's pool
  subject_code,              \* allocate_subject_rooms's arguments and locals
  student_count,
  remaining_students,
  rolls,
  iteration,
  subjectLog                 \* per finished subject, what lines 306, 408, 464 and 469 log

vars == <<pc, args, workbook, sortOrder, run, firstRun, tempFile, mode, buffer,
          exam_schedule, course_roll_mapping, classroom_master, clashes,
          no_clashes, seats_left, groupsLeft, group, subjects_with_counts,
          processed_subjects, available_rooms_by_floor, subject_code,
          student_count, remaining_students, rolls, iteration, subjectLog>>

inputVars == <<args, workbook, sortOrder>>
engineVars == <<mode, buffer, exam_schedule, course_roll_mapping,
                classroom_master, clashes, no_clashes, seats_left>>
groupVars == <<groupsLeft, group, subjects_with_counts, processed_subjects>>
subjectVars == <<subject_code, student_count, remaining_students, rolls, iteration>>

\* ----------------------------------------------------------------- inputs
RoomNumbers ==
  << <<"1", "0", "1">>, <<"2", "0", "1">>, <<"1", "0", "2">>,
     <<"L", "1">>, <<"2", "0", "2">> >>

RoomRow(i, cap) ==
  [roomNo |-> RoomNumbers[i], examCapacity |-> cap,
   block |-> IF i % 2 = 1 THEN "B1" ELSE "B2"]

\* Room sheets: 1 .. MaxRooms rooms, each of capacity 1 .. MaxCap
RoomSheets ==
  UNION { { [i \in 1 .. n |-> RoomRow(i, caps[i])] : caps \in [1 .. n -> 1 .. MaxCap] }
          : n \in 1 .. MaxRooms }

\* A sheet whose rooms, on one floor, differ by more than a buffer does: one
\* room larger than every buffer (but the largest) and one of a single seat
WideSheet == <<RoomRow(1, MaxCap + 1), RoomRow(3, 1)>>

\* sort_values('exam capacity', ascending = False) uses an unstable sort
\* (kind = 'quicksort'): rows of equal capacity come in an order the
\* library picks, the same on every call for the same sheet
SortOrders(sheet) ==
  { p \in [1 .. Len(sheet) -> 1 .. Len(sheet)] :
      /\ \A i, j \in 1 .. Len(sheet) : i # j => p[i] # p[j]
      /\ \A i, j \in 1 .. Len(sheet) :
           i < j => sheet[p[i]].examCapacity >= sheet[p[j]].examCapacity }

\* -1: a negative buffer; MaxCap: a buffer above some room's capacity
Buffers == -1 .. MaxCap

RosterRows(subject, students) ==
  [i \in 1 .. Len(students) |-> [course_code |-> subject, rollno |-> students[i]]]

\* Roster sheets of the allocation inputs: A has the first a students, B the
\* last b (from the last one down), and A's first row is there twice
CountRoster(a, b) ==
  RosterRows("A", [i \in 1 .. a |-> i])
  \o RosterRows("B", [i \in 1 .. b |-> MaxStud + 1 - i])
  \o RosterRows("A", [i \in 1 .. Min(a, 1) |-> i])

CountRosters == { CountRoster(a, b) : a \in 0 .. MaxStud, b \in 0 .. MaxStud }

\* Roster sheets of the schedule inputs: any set of students per subject,
\* A's rows ascending, B's descending
RECURSIVE Ascending(_)
Ascending(set) ==
  IF set = {} THEN <<>>
  ELSE LET least == CHOOSE x \in set : \A y \in set : x <= y
       IN <<least>> \o Ascending(set \ {least})

Reverse(s) == [i \in 1 .. Len(s) |-> s[Len(s) + 1 - i]]

SetRosters ==
  { RosterRows("A", Ascending(sa)) \o RosterRows("B", Reverse(Ascending(sb)))
      : sa \in SUBSET Students, sb \in SUBSET Students }

\* The (morning, evening) cells of a timetable row
RowShapes ==
  { << <<"A", "B">>, <<"no exam">> >>,
    << <<"A">>, <<"B", "", "B">> >>,
    << <<>>, <<"B", "A">> >> }

TimetableRows ==
  { [date |-> d, morning |-> shape[1], evening |-> shape[2]]
      : d \in 1 .. MaxRows, shape \in RowShapes }

Timetables == UNION { [1 .. n -> TimetableRows] : n \in 1 .. MaxRows }

\* Allocation inputs: every room sheet, buffer and mode, on a one-row
\* timetable; schedule inputs: every timetable and roster on one room sheet
AllocationInputs ==
  { [args |-> [buffer |-> b, mode |-> m],
     workbook |-> [in_timetable |-> <<row>>, in_course_roll_mapping |-> roster,
                   in_room_capacity |-> sheet]]
      : b \in Buffers, m \in Modes, row \in TimetableRows,
        roster \in CountRosters, sheet \in RoomSheets \cup {WideSheet} }

ScheduleInputs ==
  { [args |-> [buffer |-> 0, mode |-> m],
     workbook |-> [in_timetable |-> tt, in_course_roll_mapping |-> roster,
                   in_room_capacity |-> <<RoomRow(1, MaxCap), RoomRow(2, 1)>>]]
      : m \in {"dense"}, tt \in Timetables, roster \in SetRosters }

\* Constructor calls with a mode that is neither 'dense' nor 'sparse'
InvalidModeInputs ==
  { [args |-> [buffer |-> b, mode |-> m],
     workbook |-> [in_timetable |-> <<row>>,
                   in_course_roll_mapping |-> CountRoster(MaxStud, 1),
                   in_room_capacity |-> <<RoomRow(1, MaxCap)>>]]
      : b \in Buffers, m \in {"Dense", "medium", ""}, row \in TimetableRows }

Inputs == AllocationInputs \cup ScheduleInputs \cup InvalidModeInputs

\* A file an earlier run left in the working directory
StaleFile ==
  [exists |-> TRUE,
   rows |-> << [date |-> 1, day |-> DayOf(1), session |-> "morning",
                course_code |-> "A", room |-> RoomNumbers[1], block |-> "B1",
                allocated_student_count |-> 1, roll_list |-> <<1>>,
                exam_capacity |-> 1, adjusted_capacity |-> 1, floor |-> "1"] >>]

NoFile == [exists |-> FALSE, rows |-> <<>>]

NoGroup == [date |-> 0, day |-> None, session |-> None]

\* self.exam_schedule = None (and the like) before load_data: no table, which
\* is not an empty table
NoFrame == << [none |-> TRUE] >>

\* Nothing kept of a first run yet
NoRun == [mode |-> None, clashes |-> <<>>, rows |-> <<>>, ended |-> None]

\* ---------------------------------------------------------------- actions
\* Before main(): no engine, and the file an earlier run may have left
NothingRunYet ==
  /\ run = 1
  /\ firstRun = NoRun
  /\ tempFile \in {NoFile, StaleFile}
  /\ mode = None
  /\ buffer = 0
  /\ exam_schedule = NoFrame
  /\ course_roll_mapping = NoFrame
  /\ classroom_master = NoFrame
  /\ clashes = <<>>
  /\ no_clashes = <<>>
  /\ seats_left = <<>>
  /\ groupsLeft = <<>>
  /\ group = NoGroup
  /\ subjects_with_counts = <<>>
  /\ processed_subjects = 0
  /\ available_rooms_by_floor = <<>>
  /\ subject_code = None
  /\ student_count = 0
  /\ remaining_students = 0
  /\ rolls = <<>>
  /\ iteration = 0
  /\ subjectLog = <<>>

InitFrom(inputs) ==
  /\ pc = "main"
  /\ \E inp \in inputs :
       /\ args = inp.args
       /\ workbook = inp.workbook
       /\ sortOrder \in SortOrders(inp.workbook.in_room_capacity)
  /\ NothingRunYet

Init == InitFrom(Inputs)

\* __init__ that clears the file before it validates the mode
ConstructValidatesLate ==
  /\ pc = "main"
  /\ args.mode \notin Modes
  /\ pc' = "failed"
  /\ mode' = args.mode
  /\ buffer' = args.buffer
  /\ tempFile' = [exists |-> TRUE, rows |-> <<>>]
  /\ UNCHANGED <<inputVars, run, firstRun, exam_schedule,
                 course_roll_mapping, classroom_master, clashes, no_clashes,
                 seats_left, groupVars, available_rooms_by_floor, subjectVars,
                 subjectLog>>

\* __init__ with a mode validate_mode rejects: the ValueError leaves
\* __init__ at line 32 and main() reports it
ConstructFails ==
  /\ pc = "main"
  /\ args.mode \notin Modes
  /\ pc' = "failed"
  /\ mode' = args.mode
  /\ buffer' = args.buffer
  /\ UNCHANGED <<inputVars, run, firstRun, tempFile, exam_schedule,
                 course_roll_mapping, classroom_master, clashes, no_clashes,
                 seats_left, groupVars, available_rooms_by_floor, subjectVars,
                 subjectLog>>

\* __init__: initialize_temp_file removes the file and writes the header
Construct ==
  /\ pc = "main"
  /\ args.mode \in Modes
  /\ pc' = "constructed"
  /\ mode' = args.mode
  /\ buffer' = args.buffer
  /\ tempFile' = [exists |-> TRUE, rows |-> <<>>]
  /\ clashes' = <<>>
  /\ seats_left' = <<>>
  /\ UNCHANGED <<inputVars, run, firstRun, exam_schedule, course_roll_mapping,
                 classroom_master, no_clashes, groupVars,
                 available_rooms_by_floor, subjectVars, subjectLog>>

\* load_data: the sheets are read, the timetable is expanded, floors and
\* adjusted capacities are added to the room sheet
LoadData ==
  /\ pc = "constructed"
  /\ pc' = "loaded"
  /\ exam_schedule' = parse_exam_schedule(workbook.in_timetable)
  /\ course_roll_mapping' = workbook.in_course_roll_mapping
  /\ classroom_master' = LoadRooms(workbook.in_room_capacity, buffer)
  /\ UNCHANGED <<inputVars, run, firstRun, tempFile, mode, buffer, clashes,
                 no_clashes, seats_left, groupVars, available_rooms_by_floor,
                 subjectVars, subjectLog>>

\* The orders a process's hash salt can give the roll strings
HashOrders ==
  { p \in [1 .. MaxStud -> Students] : \A i, j \in 1 .. MaxStud : i # j => p[i] # p[j] }

\* detect_clashes
DetectClashes ==
  /\ pc = "loaded"
  /\ pc' = "clashes_checked"
  /\ \E hashOrder \in HashOrders :
       clashes' = clashes \o DetectedClashes(exam_schedule, course_roll_mapping, hashOrder)
  /\ no_clashes' = << Len(clashes') = 0 >>
  /\ UNCHANGED <<inputVars, run, firstRun, tempFile, mode, buffer, exam_schedule,
                 course_roll_mapping, classroom_master, seats_left, groupVars,
                 available_rooms_by_floor, subjectVars, subjectLog>>

\* allocate_seats, lines 262-265: the groups are taken
AllocateSeats ==
  /\ pc = "clashes_checked"
  /\ pc' = "groups"
  /\ groupsLeft' = GroupedExams(exam_schedule)
  /\ UNCHANGED <<inputVars, run, firstRun, tempFile, engineVars, group,
                 subjects_with_counts, processed_subjects,
                 available_rooms_by_floor, subjectVars, subjectLog>>

\* The pool built once and carried from group to group
BuildPoolOnce(master, order) ==
  IF available_rooms_by_floor # <<>>
  THEN available_rooms_by_floor
  ELSE GroupByFloor([k \in 1 .. Len(order) |-> master[order[k]]])

\* allocate_seats, lines 288-295: a copy of every row of classroom_master,
\* in the order sort_values('exam capacity', ascending = False) gives
\* (order: the row indices in that order), grouped by floor
BuildPool(master, order) ==
  GroupByFloor([k \in 1 .. Len(order) |-> master[order[k]]])

\* allocate_seats, lines 267-299: the next group; its subjects by count and
\* its own pool
NextGroup ==
  /\ pc = "groups"
  /\ subjects_with_counts = <<>>
  /\ groupsLeft # <<>>
  /\ group' = Head(groupsLeft)
  /\ groupsLeft' = Tail(groupsLeft)
  /\ subjects_with_counts' =
       SubjectsWithCounts(exam_schedule, course_roll_mapping, Head(groupsLeft))
  /\ processed_subjects' = 0
  /\ available_rooms_by_floor' = BuildPool(classroom_master, sortOrder)
  /\ UNCHANGED <<pc, inputVars, run, firstRun, tempFile, engineVars,
                 subjectVars, subjectLog>>

\* allocate_seats, lines 302-312, and allocate_subject_rooms, lines 392-395
NextSubject ==
  /\ pc = "groups"
  /\ subjects_with_counts # <<>>
  /\ pc' = "loop"
  /\ processed_subjects' = processed_subjects + 1
  /\ subject_code' = Head(subjects_with_counts).subj
  /\ student_count' = Head(subjects_with_counts).count
  /\ remaining_students' = Head(subjects_with_counts).count
  /\ rolls' = get_rolls_for_subject(course_roll_mapping, Head(subjects_with_counts).subj)
  /\ iteration' = 0
  /\ subjects_with_counts' = Tail(subjects_with_counts)
  /\ UNCHANGED <<inputVars, run, firstRun, tempFile, engineVars, groupsLeft,
                 group, available_rooms_by_floor, subjectLog>>

\* The CSV row of lines 435-447
AllocationRow(room, allocated_rolls) ==
  [date |-> group.date, day |-> group.day, session |-> group.session,
   course_code |-> subject_code, room |-> room.roomNo, block |-> room.block,
   allocated_student_count |-> Len(allocated_rolls),
   roll_list |-> allocated_rolls,
   exam_capacity |-> room.examCapacity,
   adjusted_capacity |-> room.adjusted_capacity,
   floor |-> room.floor]

\* rolls[n:] left out: the roster is never shortened
DropNothing(s, n) == s

\* rolls[:n] and rolls[n:]
Take(s, n) == SubSeq(s, 1, Min(n, Len(s)))
Drop(s, n) == SubSeq(s, Min(n, Len(s)) + 1, Len(s))

\* The while condition of line 397
LoopCondition == remaining_students > 0 /\ iteration < max_iterations

\* One pass of the while loop of allocate_subject_rooms, lines 397-461
LoopStep ==
  /\ pc = "loop"
  /\ LoopCondition
  /\ iteration' = iteration + 1
  /\ LET floor == select_best_floor(available_rooms_by_floor, remaining_students)
     IN IF floor = None \/ RoomsOfFloor(available_rooms_by_floor, floor) = <<>>
        THEN \* break, line 409
             /\ pc' = "after_loop"
             /\ UNCHANGED <<tempFile, available_rooms_by_floor,
                            remaining_students, rolls>>
        ELSE LET room == select_best_room(
                           RoomsOfFloor(available_rooms_by_floor, floor),
                           remaining_students, mode)
                 students_to_allocate ==
                   StudentsToAllocate(room, remaining_students, mode)
                 allocated_rolls == Take(rolls, students_to_allocate)
                 actual_count == Len(allocated_rolls)
             IN IF students_to_allocate <= 0
                THEN \* the room is dropped, continue, line 428
                     /\ available_rooms_by_floor' =
                          RemoveRoom(available_rooms_by_floor, floor, room)
                     /\ UNCHANGED <<pc, tempFile, remaining_students, rolls>>
                ELSE /\ tempFile' = [tempFile EXCEPT !.rows =
                                       Append(@, AllocationRow(room, allocated_rolls))]
                     /\ remaining_students' = remaining_students - actual_count
                     /\ rolls' = Drop(rolls, actual_count)
                     /\ available_rooms_by_floor' =
                          ConsumeRoom(available_rooms_by_floor, floor, room, actual_count)
                     /\ UNCHANGED pc
  /\ UNCHANGED <<inputVars, run, firstRun, engineVars, groupVars,
                 subject_code, student_count, subjectLog>>

\* allocate_subject_rooms raising on a deficit, and main() reporting it
FinishSubjectAborts ==
  /\ \/ pc = "after_loop"
     \/ pc = "loop" /\ ~LoopCondition
  /\ pc' = IF remaining_students > 0 THEN "failed" ELSE "groups"
  /\ subjectLog' = Append(subjectLog,
       [group |-> group, subject_code |-> subject_code,
        student_count |-> student_count,
        remaining_students |-> remaining_students,
        no_floor |-> pc = "after_loop",
        ceiling |-> iteration >= max_iterations])
  /\ subject_code' = None
  /\ student_count' = 0
  /\ remaining_students' = 0
  /\ rolls' = <<>>
  /\ iteration' = 0
  /\ UNCHANGED <<inputVars, run, firstRun, tempFile, engineVars, groupVars,
                 available_rooms_by_floor>>

\* allocate_subject_rooms, lines 463-471, after the loop ended or broke:
\* what it logs, and back to the loop over subjects
FinishSubject ==
  /\ \/ pc = "after_loop"
     \/ pc = "loop" /\ ~LoopCondition
  /\ pc' = "groups"
  /\ subjectLog' = Append(subjectLog,
       [group |-> group, subject_code |-> subject_code,
        student_count |-> student_count,
        remaining_students |-> remaining_students,
        no_floor |-> pc = "after_loop",
        ceiling |-> iteration >= max_iterations])
  /\ subject_code' = None
  /\ student_count' = 0
  /\ remaining_students' = 0
  /\ rolls' = <<>>
  /\ iteration' = 0
  /\ UNCHANGED <<inputVars, run, firstRun, tempFile, engineVars, groupVars,
                 available_rooms_by_floor>>

\* allocate_seats, line 332, once every group is done
PrepareSeatsLeft ==
  /\ pc = "groups"
  /\ subjects_with_counts = <<>>
  /\ groupsLeft = <<>>
  /\ pc' = "done"
  /\ seats_left' = prepare_seats_left_data(tempFile.rows)
  /\ UNCHANGED <<inputVars, run, firstRun, tempFile, mode, buffer,
                 exam_schedule, course_roll_mapping, classroom_master, clashes,
                 no_clashes, groupVars, available_rooms_by_floor, subjectVars,
                 subjectLog>>

\* main() is run a second time on the same workbook, with the same buffer
Rerun ==
  /\ pc \in {"done", "failed"}
  /\ run = 1
  /\ run' = 2
  /\ firstRun' = [mode |-> mode, clashes |-> clashes, rows |-> tempFile.rows,
                  ended |-> pc]
  /\ \E m \in Modes : args' = [args EXCEPT !.mode = m]
  /\ pc' = "main"
  /\ mode' = None
  /\ buffer' = 0
  /\ exam_schedule' = NoFrame
  /\ course_roll_mapping' = NoFrame
  /\ classroom_master' = NoFrame
  /\ clashes' = <<>>
  /\ no_clashes' = <<>>
  /\ seats_left' = <<>>
  /\ group' = NoGroup
  /\ available_rooms_by_floor' = <<>>
  /\ subjectLog' = <<>>
  /\ UNCHANGED <<workbook, sortOrder, tempFile, groupsLeft,
                 subjects_with_counts, processed_subjects, subjectVars>>

Next ==
  \/ ConstructFails
  \/ Construct
  \/ LoadData
  \/ DetectClashes
  \/ AllocateSeats
  \/ NextGroup
  \/ NextSubject
  \/ LoopStep
  \/ FinishSubject
  \/ PrepareSeatsLeft

Spec == Init /\ [][Next]_vars

\* Two runs of main() in a row on one workbook
RerunInputs ==
  { inp \in AllocationInputs \cup InvalidModeInputs :
      /\ inp.args.buffer = 0
      /\ inp.workbook.in_timetable[1].date = 1 }

InitRerun == InitFrom(RerunInputs)

NextRerun == Next \/ Rerun

SpecRerun == InitRerun /\ [][NextRerun]_vars

\* Runs long enough to meet the iteration ceiling: max_iterations rooms, one
\* more and one less, of a single seat each in sparse mode (every pass drops
\* a room and seats nobody), and max_iterations rooms of two seats with as
\* many students, one more and one less (in sparse mode every pass seats one
\* student). All rooms are on floor '1'.
DigitChar(n) == <<"0", "1", "2", "3", "4", "5", "6", "7", "8", "9">>[n + 1]

ManyRoomNo(i) ==
  <<"1", DigitChar(i \div 100), DigitChar((i \div 10) % 10), DigitChar(i % 10)>>

ManySheet(n, cap) ==
  [i \in 1 .. n |-> [roomNo |-> ManyRoomNo(i), examCapacity |-> cap, block |-> "B1"]]

\* A and B in the evening, the first group, and B alone in the morning; B
\* has one student, who is not in A
CeilingWorkbook(students, sheet) ==
  [in_timetable |-> << [date |-> 1, morning |-> <<"B">>, evening |-> <<"A", "B">>] >>,
   in_course_roll_mapping |->
     RosterRows("A", [i \in 1 .. students |-> i]) \o RosterRows("B", <<students + 1>>),
   in_room_capacity |-> sheet]

CeilingInputs ==
  { [args |-> [buffer |-> 0, mode |-> "sparse"],
     workbook |-> CeilingWorkbook(1, ManySheet(n, 1))]
      : n \in max_iterations - 1 .. max_iterations + 1 }
  \cup
  { [args |-> [buffer |-> 0, mode |-> "sparse"],
     workbook |-> CeilingWorkbook(n, ManySheet(max_iterations, 2))]
      : n \in max_iterations - 1 .. max_iterations + 1 }

\* The rooms of these sheets are alike (one capacity, one floor): the sort
\* can give them in any order and the passes are the same; the model takes
\* the sheet's order
InitCeiling ==
  /\ pc = "main"
  /\ \E inp \in CeilingInputs :
       /\ args = inp.args
       /\ workbook = inp.workbook
       /\ sortOrder = [i \in 1 .. Len(inp.workbook.in_room_capacity) |-> i]
  /\ NothingRunYet

\* The runs whose end is looked at: those of Spec and those that meet the
\* ceiling
LiveInputs == Inputs

InitLive == InitFrom(LiveInputs) \/ InitCeiling

\* main() is a sequential program: while it has not ended, its next step is
\* taken. position tells where the run is, and every step of Next changes
\* it (a step moves pc, a pass counts iteration up, a new group shortens
\* groupsLeft). Next is enabled exactly while the run has not ended
\* (Running), so that MainRunsOn is weak fairness of Next, WF_position(Next),
\* with ENABLED <<Next>>_position written as the state predicate it equals.
position == <<pc, iteration, groupsLeft>>

Running == pc \notin {"done", "failed"}

MainRunsOn == []<>~Running \/ []<><<Next>>_position

\* Every step of main() changes position
EveryStepMoves == [][position' # position]_vars

SpecLive == InitLive /\ [][Next]_vars /\ MainRunsOn

\* ============================================================== properties
\* What the properties read off the inputs and the outputs, stated on the
\* sheets themselves and not through the engine's own functions.

\* The engine of this run exists and its tables are loaded
Loaded == pc \notin {"main", "failed", "constructed"}

Records == tempFile.rows

RoomSheet == workbook.in_room_capacity

\* The subjects the timetable puts in session (date, session)
CellOf(row, session) == IF session = "morning" THEN row.morning ELSE row.evening

CellSubjects(row, session) ==
  IF CellOf(row, session) = <<"no exam">> THEN {}
  ELSE Range(CellOf(row, session)) \ {""}

ScheduledIn(date, session) ==
  UNION { CellSubjects(r, session)
          : r \in { x \in Range(workbook.in_timetable) : x.date = date } }

SessionGroups ==
  { g \in (1 .. MaxRows) \X {"morning", "evening"} : ScheduledIn(g[1], g[2]) # {} }

\* The students the roster enrols in a subject
Enrolled(subject) ==
  { r.rollno : r \in { x \in Range(workbook.in_course_roll_mapping) :
                         x.course_code = subject } }

InGroup(rec, g) == rec.date = g[1] /\ rec.session = g[2]

\* Seats assigned in group g to room number roomNo / to a subject
AssignedToRoom(g, roomNo) ==
  SumSeq([i \in DOMAIN Records |->
            IF InGroup(Records[i], g) /\ Records[i].room = roomNo
            THEN Records[i].allocated_student_count ELSE 0])

AssignedToSubject(g, subject) ==
  SumSeq([i \in DOMAIN Records |->
            IF InGroup(Records[i], g) /\ Records[i].course_code = subject
            THEN Records[i].allocated_student_count ELSE 0])

CapacityOfRoom(roomNo) ==
  (CHOOSE r \in Range(RoomSheet) : r.roomNo = roomNo).examCapacity

\* C1 (as claimed), at the end of a run: in every session group, in dense mode the seats assigned
\* to a room sum to at most its exam capacity minus the buffer, for every
\* room of the room sheet; in sparse mode every record assigns at most
\* floor((exam capacity - buffer) * 0.5) of its room.
C1_CapacityInvariant ==
  pc = "done" =>
    /\ mode = "dense" =>
         \A g \in SessionGroups : \A r \in Range(RoomSheet) :
           AssignedToRoom(g, r.roomNo) <= r.examCapacity - buffer
    /\ mode = "sparse" =>
         \A i \in DOMAIN Records :
           Records[i].allocated_student_count
             <= (CapacityOfRoom(Records[i].room) - buffer) \div 2

\* The same invariant on the rooms whose adjusted capacity is not negative
\* (buffer <= exam capacity): there it holds.
CapacityInvariantOfUsableRooms ==
  Loaded =>
    /\ mode = "dense" =>
         \A g \in SessionGroups : \A r \in Range(RoomSheet) :
           r.examCapacity - buffer >= 0 =>
             AssignedToRoom(g, r.roomNo) <= r.examCapacity - buffer
    /\ mode = "sparse" =>
         \A i \in DOMAIN Records :
           Records[i].allocated_student_count
             <= (CapacityOfRoom(Records[i].room) - buffer) \div 2

\* C2: for every subject whose allocation in a session group has ended:
\* with no deficit logged its records' counts sum to its enrollment count;
\* with a deficit the sum is strictly less and the logged shortfall is the
\* enrollment count minus the sum.
C2_Conservation ==
  Loaded =>
    \A k \in DOMAIN subjectLog :
      LET e == subjectLog[k]
          g == <<e.group.date, e.group.session>>
          enrollment == Cardinality(Enrolled(e.subject_code))
          assigned == AssignedToSubject(g, e.subject_code)
      IN IF e.remaining_students = 0
         THEN assigned = enrollment
         ELSE assigned < enrollment /\ e.remaining_students = enrollment - assigned

\* C2, witness: a subject ended with a deficit after some of its students
\* were seated, and another subject ended fully seated
C2_Witness ==
  /\ Loaded
  /\ \E k \in DOMAIN subjectLog :
       /\ subjectLog[k].remaining_students > 0
       /\ subjectLog[k].remaining_students < subjectLog[k].student_count
  /\ \E k \in DOMAIN subjectLog :
       /\ subjectLog[k].remaining_students = 0
       /\ subjectLog[k].student_count > 1

\* The students two subjects share
Common(s1, s2) == Enrolled(s1) \cap Enrolled(s2)

ClashesOf(g, s1, s2) ==
  { i \in DOMAIN clashes :
      /\ clashes[i].date = g[1]
      /\ clashes[i].session = g[2]
      /\ Range(clashes[i].subjects) = {s1, s2} }

\* C3: once detect_clashes has returned, two distinct subjects of one
\* session group that share a student have exactly one clash record for that
\* group, listing exactly the shared students; every clash record is of two
\* distinct subjects scheduled in its group that share a student (so
\* disjoint rosters, and subjects of different dates or of morning and
\* evening, have none); and the call returned TRUE exactly when the clash
\* list is empty.
C3_ClashCompleteness ==
  Loaded /\ pc # "loaded" =>
    /\ \A g \in SessionGroups : \A s1, s2 \in ScheduledIn(g[1], g[2]) :
         s1 # s2 /\ Common(s1, s2) # {} =>
           /\ Cardinality(ClashesOf(g, s1, s2)) = 1
           /\ \A i \in ClashesOf(g, s1, s2) :
                /\ Range(clashes[i].roll_numbers) = Common(s1, s2)
                /\ Len(clashes[i].roll_numbers) = Cardinality(Common(s1, s2))
    /\ \A i \in DOMAIN clashes :
         LET c == clashes[i] IN
           /\ c.subjects[1] # c.subjects[2]
           /\ Range(c.subjects) \subseteq ScheduledIn(c.date, c.session)
           /\ Common(c.subjects[1], c.subjects[2]) # {}
    /\ no_clashes = << clashes = <<>> >>

\* C3, witness: a timetable with the same two subjects in two session
\* groups, sharing two students or more: two clash records, one per group
C3_Witness ==
  /\ pc = "clashes_checked"
  /\ Len(clashes) = 2
  /\ clashes[1].session # clashes[2].session \/ clashes[1].date # clashes[2].date
  /\ Len(clashes[1].roll_numbers) >= 2
  /\ no_clashes = <<FALSE>>

\* C6: a constructor call with a mode other than 'dense' or 'sparse' ends
\* in the error, and that step leaves temp_allocations.csv as it was
\* (neither cleared nor created), loads no table and leaves no clash
\* behind; nothing changes afterwards.
C6_InvalidModeTouchesNothing ==
  /\ [][pc = "main" /\ args.mode \notin Modes =>
          /\ pc' = "failed"
          /\ tempFile' = tempFile]_vars
  /\ [](pc = "failed" =>
          /\ exam_schedule = NoFrame
          /\ course_roll_mapping = NoFrame
          /\ classroom_master = NoFrame
          /\ clashes = <<>>
          /\ seats_left = <<>>
          /\ subjectLog = <<>>)
  /\ [][pc = "failed" => tempFile' = tempFile]_vars

\* C6, witness: the constructor failed and the file an earlier run left is
\* still there, with its rows
C6_Witness ==
  /\ pc = "failed"
  /\ mode \notin Modes
  /\ tempFile = StaleFile

\* C7 (as claimed): with a negative buffer the run aborts before processing:
\* no room gets an adjusted capacity above its exam capacity and no
\* allocation record is produced.
C7_NegativeBufferAborts ==
  args.buffer < 0 /\ Loaded =>
    /\ \A i \in DOMAIN classroom_master :
         classroom_master[i].adjusted_capacity <= classroom_master[i].examCapacity
    /\ Records = <<>>

PoolRooms == Flatten([e \in DOMAIN available_rooms_by_floor |->
                        available_rooms_by_floor[e].rooms])

\* C8 (as claimed): no room of classroom_master and no room held in a pool
\* has a negative (remaining) adjusted capacity.
C8_AdjustedCapacityNotNegative ==
  Loaded =>
    /\ \A i \in DOMAIN classroom_master : classroom_master[i].adjusted_capacity >= 0
    /\ \A i \in DOMAIN PoolRooms : PoolRooms[i].adjusted_capacity >= 0

\* Position of session group (date, session) in the expanded timetable: row
\* by row, morning before evening
FirstSeen(date, session) ==
  LET Lists(r) == /\ workbook.in_timetable[r].date = date
                  /\ CellSubjects(workbook.in_timetable[r], session) # {}
      row == CHOOSE r \in DOMAIN workbook.in_timetable :
               Lists(r) /\ \A q \in DOMAIN workbook.in_timetable : Lists(q) => r <= q
  IN 2 * row + (IF session = "morning" THEN 0 ELSE 1)

SameGroup(r1, r2) == r1.date = r2.date /\ r1.session = r2.session

\* C9 (as claimed): the records of a session group that first appears
\* earlier in the expanded timetable all precede the records of a group that
\* first appears later.
C9_GroupsInInputOrder ==
  Loaded =>
    \A i, j \in DOMAIN Records :
      i < j => FirstSeen(Records[i].date, Records[i].session)
                 <= FirstSeen(Records[j].date, Records[j].session)

\* C9 (amended): the records come in ascending order of their group's
\* (date, day, session) key, 'evening' before 'morning' within a date.
C9_GroupsInKeyOrder ==
  Loaded =>
    \A i, j \in DOMAIN Records :
      i < j =>
        \/ Records[i].date < Records[j].date
        \/ /\ Records[i].date = Records[j].date
           /\ (Records[i].session = "evening" \/ Records[j].session = "morning")

\* C9, witness: a finished run whose records are of two groups that the
\* timetable lists in the other order
C9_Witness ==
  /\ pc = "done"
  /\ \E i, j \in DOMAIN Records :
       /\ i < j
       /\ ~SameGroup(Records[i], Records[j])
       /\ FirstSeen(Records[i].date, Records[i].session)
            > FirstSeen(Records[j].date, Records[j].session)

\* A group was just started: its pool is built, no subject taken yet
GroupStarts ==
  pc = "groups" /\ processed_subjects = 0 /\ subjects_with_counts # <<>>

\* C10: when a session group starts, the pool holds every room of the room
\* sheet exactly once, on its floor, with remaining capacity equal to exam
\* capacity minus buffer, whatever earlier groups consumed; and no step of
\* the allocation changes classroom_master.
C10_FreshPoolPerGroup ==
  /\ [](GroupStarts =>
          /\ Len(PoolRooms) = Len(RoomSheet)
          /\ \A r \in Range(RoomSheet) :
               \E e \in DOMAIN available_rooms_by_floor :
                 \E k \in DOMAIN available_rooms_by_floor[e].rooms :
                   LET room == available_rooms_by_floor[e].rooms[k] IN
                     /\ room.roomNo = r.roomNo
                     /\ room.floor = available_rooms_by_floor[e].floor
                     /\ room.adjusted_capacity = r.examCapacity - buffer)
  /\ [][Loaded => classroom_master' = classroom_master]_vars

\* C10, witness: a second group starts after the first one filled rooms
C10_Witness ==
  /\ GroupStarts
  /\ Records # <<>>
  /\ \E i \in DOMAIN Records : ~(Records[i].date = group.date /\ Records[i].session = group.session)

BothRunsDone == run = 2 /\ pc = "done" /\ firstRun.ended = "done"

\* C4 (as claimed): a second run on the same inputs and in the same mode
\* leaves the same sequence of allocation records and the same sequence of
\* clash records as the first, each with the same student list.
C4_Determinism ==
  BothRunsDone /\ firstRun.mode = mode =>
    /\ Records = firstRun.rows
    /\ clashes = firstRun.clashes

\* The part of C4 that holds: the allocation records repeat, and so do the
\* clash records up to the order of each one's roll_numbers.
RepeatsUpToRollOrder ==
  BothRunsDone /\ firstRun.mode = mode =>
    /\ Records = firstRun.rows
    /\ Len(clashes) = Len(firstRun.clashes)
    /\ \A i \in DOMAIN clashes :
         /\ Range(clashes[i].roll_numbers) = Range(firstRun.clashes[i].roll_numbers)
         /\ [clashes[i] EXCEPT !.roll_numbers = <<>>]
              = [firstRun.clashes[i] EXCEPT !.roll_numbers = <<>>]

\* The distinct rooms of a subject's records in a group
RoomsUsed(rows, g, subject) ==
  { rows[i].room : i \in { k \in DOMAIN rows :
                             InGroup(rows[k], g) /\ rows[k].course_code = subject } }

\* C5 (as claimed): run on the same inputs, sparse mode puts every subject
\* of every session group in at least as many distinct rooms as dense mode.
C5_ModeMonotonicity ==
  BothRunsDone /\ firstRun.mode = "dense" /\ mode = "sparse" =>
    \A g \in SessionGroups : \A s \in ScheduledIn(g[1], g[2]) :
      Cardinality(RoomsUsed(Records, g, s))
        >= Cardinality(RoomsUsed(firstRun.rows, g, s))

\* Seats assigned to room number roomNo in the whole run
AssignedInRun(roomNo) ==
  SumSeq([i \in DOMAIN Records |->
            IF Records[i].room = roomNo
            THEN Records[i].allocated_student_count ELSE 0])

EntriesOf(roomNo) == { e \in DOMAIN seats_left : seats_left[e].room_no = roomNo }

\* C11: after allocate_seats, every room some record references has exactly
\* one occupancy entry; its total is the sum of the assigned counts of all
\* the run's records of that room, over all session groups, and its vacant
\* is max(0, exam capacity - total), so never negative; rooms no record
\* references have no entry.
C11_OccupancyAggregation ==
  pc = "done" =>
    /\ \A i \in DOMAIN Records :
         LET roomNo == Records[i].room IN
           /\ Cardinality(EntriesOf(roomNo)) = 1
           /\ \A e \in EntriesOf(roomNo) :
                /\ seats_left[e].allocated = AssignedInRun(roomNo)
                /\ seats_left[e].exam_capacity = CapacityOfRoom(roomNo)
                /\ seats_left[e].vacant =
                     (IF CapacityOfRoom(roomNo) - AssignedInRun(roomNo) > 0
                      THEN CapacityOfRoom(roomNo) - AssignedInRun(roomNo) ELSE 0)
                /\ seats_left[e].vacant >= 0
    /\ \A e \in DOMAIN seats_left :
         \E i \in DOMAIN Records : Records[i].room = seats_left[e].room_no

\* C11, witness: a finished run in which one room was used in two session
\* groups and was assigned more seats in all than its exam capacity, and
\* another room keeps vacant seats
C11_Witness ==
  /\ pc = "done"
  /\ \E i, j \in DOMAIN Records :
       /\ Records[i].room = Records[j].room
       /\ ~SameGroup(Records[i], Records[j])
       /\ AssignedInRun(Records[i].room) > CapacityOfRoom(Records[i].room)
  /\ \E e \in DOMAIN seats_left : seats_left[e].vacant > 0

\* C13 (as claimed): every record's adjusted_capacity field is its room's
\* exam capacity minus the buffer, however many seats of the room earlier
\* records of the group consumed.
C13_AdjustedCapacityField ==
  Loaded =>
    \A i \in DOMAIN Records :
      Records[i].adjusted_capacity = CapacityOfRoom(Records[i].room) - buffer

\* The field is what the room had left when the record was written: exam
\* capacity minus buffer minus the seats earlier records of the same group
\* assigned to the room.
AdjustedCapacityFieldIsRemaining ==
  Loaded =>
    \A i \in DOMAIN Records :
      Records[i].adjusted_capacity =
        CapacityOfRoom(Records[i].room) - buffer
          - SumSeq([j \in DOMAIN Records |->
                      IF j < i /\ SameGroup(Records[j], Records[i])
                               /\ Records[j].room = Records[i].room
                      THEN Records[j].allocated_student_count ELSE 0])

\* A selection is about to be made: the loop will run once more
Selecting == pc = "loop" /\ LoopCondition

FloorsOfPool == { available_rooms_by_floor[e].floor : e \in DOMAIN available_rooms_by_floor }

FloorTotal(floor) == FloorCapacity(RoomsOfFloor(available_rooms_by_floor, floor))

FloorKeyLess(f1, f2) == CharRank(f1) < CharRank(f2)

\* The floor the claim names: the smallest key among the floors whose total
\* is >= remaining_students; else the largest total, a tie going to the
\* smaller key
FloorByKey ==
  LET fits == { f \in FloorsOfPool : FloorTotal(f) >= remaining_students }
      Least(set) == CHOOSE f \in set : \A o \in set \ {f} : FloorKeyLess(f, o)
      largest == { f \in FloorsOfPool : \A o \in FloorsOfPool : FloorTotal(o) <= FloorTotal(f) }
  IN IF fits # {} THEN Least(fits)
     ELSE IF largest # {} THEN Least(largest)
     ELSE None

\* C14 (as claimed): at every selection select_best_floor returns the
\* sufficient floor of smallest key, or failing that the floor of largest
\* total, ties to the smaller key, whatever the order of the room table.
C14_FloorSelectionByKey ==
  Selecting =>
    select_best_floor(available_rooms_by_floor, remaining_students) = FloorByKey

\* The floor and the room the next pass of the loop selects
SelectedFloor == select_best_floor(available_rooms_by_floor, remaining_students)

RoomSelected ==
  /\ Selecting
  /\ SelectedFloor # None
  /\ RoomsOfFloor(available_rooms_by_floor, SelectedFloor) # <<>>

SelectedRoom ==
  select_best_room(RoomsOfFloor(available_rooms_by_floor, SelectedFloor),
                   remaining_students, mode)

\* C15: every floor list of the pool is in descending order of remaining
\* capacity in every state; and at every selection, in dense mode the room
\* selected has the smallest remaining capacity among the floor's rooms that
\* hold all remaining students, or the largest of the floor if none does; in
\* sparse mode it has the largest remaining capacity of the floor.
C15_RoomSelection ==
  /\ \A e \in DOMAIN available_rooms_by_floor :
       LET rooms == available_rooms_by_floor[e].rooms IN
         \A i, j \in DOMAIN rooms :
           i < j => rooms[i].adjusted_capacity >= rooms[j].adjusted_capacity
  /\ RoomSelected =>
       LET rooms == Range(RoomsOfFloor(available_rooms_by_floor, SelectedFloor))
           suffice == { r \in rooms : r.adjusted_capacity >= remaining_students }
       IN /\ SelectedRoom \in rooms
          /\ IF mode = "dense" /\ suffice # {}
             THEN /\ SelectedRoom \in suffice
                  /\ \A r \in suffice :
                       SelectedRoom.adjusted_capacity <= r.adjusted_capacity
             ELSE \A r \in rooms :
                    SelectedRoom.adjusted_capacity >= r.adjusted_capacity

\* C15, witness: a dense selection, after earlier records, that passes over
\* the floor's largest room for a tighter one
C15_Witness ==
  /\ RoomSelected
  /\ mode = "dense"
  /\ Records # <<>>
  /\ SelectedRoom.adjusted_capacity
       < RoomsOfFloor(available_rooms_by_floor, SelectedFloor)[1].adjusted_capacity

\* Where the timetable sheet first lists subject s in session group g: the
\* row, and the place in the row's cell
FirstRowOf(g, s) ==
  CHOOSE r \in DOMAIN workbook.in_timetable :
    LET Lists(q) == /\ workbook.in_timetable[q].date = g[1]
                    /\ s \in CellSubjects(workbook.in_timetable[q], g[2])
    IN Lists(r) /\ \A q \in DOMAIN workbook.in_timetable : Lists(q) => r <= q

FirstPlaceOf(g, s) ==
  LET cell == CellOf(workbook.in_timetable[FirstRowOf(g, s)], g[2])
  IN CHOOSE k \in DOMAIN cell : cell[k] = s /\ \A q \in DOMAIN cell : cell[q] = s => k <= q

SeenBefore(g, s1, s2) ==
  \/ FirstRowOf(g, s1) < FirstRowOf(g, s2)
  \/ FirstRowOf(g, s1) = FirstRowOf(g, s2) /\ FirstPlaceOf(g, s1) < FirstPlaceOf(g, s2)

\* C16: of two records of one session group and of different subjects, the
\* earlier one is of the subject with more enrolled students, or, the counts
\* being equal, of the subject the timetable lists first.
C16_SubjectsByEnrollment ==
  Loaded =>
    \A i, j \in DOMAIN Records :
      i < j /\ SameGroup(Records[i], Records[j])
            /\ Records[i].course_code # Records[j].course_code =>
        LET g == <<Records[i].date, Records[i].session>>
            s1 == Records[i].course_code
            s2 == Records[j].course_code
        IN \/ Cardinality(Enrolled(s1)) > Cardinality(Enrolled(s2))
           \/ /\ Cardinality(Enrolled(s1)) = Cardinality(Enrolled(s2))
              /\ SeenBefore(g, s1, s2)

\* C16, witness: a group whose records start with the subject the timetable
\* lists second, which has more students
C16_Witness ==
  /\ Loaded
  /\ \E i, j \in DOMAIN Records :
       /\ i < j
       /\ SameGroup(Records[i], Records[j])
       /\ Records[i].course_code # Records[j].course_code
       /\ SeenBefore(<<Records[i].date, Records[i].session>>,
                     Records[j].course_code, Records[i].course_code)

\* The subject's students in the order of the roster sheet, a student listed
\* twice standing where first listed
RosterOf(subject) ==
  LET sheet == workbook.in_course_roll_mapping
      firsts == { i \in DOMAIN sheet :
                    /\ sheet[i].course_code = subject
                    /\ \A j \in DOMAIN sheet :
                         j < i => ~(sheet[j].course_code = subject
                                      /\ sheet[j].rollno = sheet[i].rollno) }
      rows == SelectSeq([i \in DOMAIN sheet |-> i], LAMBDA i : i \in firsts)
  IN [k \in DOMAIN rows |-> sheet[rows[k]].rollno]

\* The student lists of the subject's records in group g, one after the other
SeatedOf(g, subject) ==
  Flatten([i \in DOMAIN Records |->
             IF InGroup(Records[i], g) /\ Records[i].course_code = subject
             THEN Records[i].roll_list ELSE <<>>])

\* C19: the student lists of a subject's records in a session group, put
\* one after the other in record order, are a prefix of the subject's roster
\* in table order, so no student is in two of them; every record's count is
\* the length of its student list and at least 1.
C19_RosterPrefix ==
  Loaded =>
    /\ \A g \in SessionGroups : \A s \in ScheduledIn(g[1], g[2]) :
         LET seated == SeatedOf(g, s) IN
           /\ Len(seated) <= Len(RosterOf(s))
           /\ seated = SubSeq(RosterOf(s), 1, Len(seated))
           /\ \A a, b \in DOMAIN seated : a # b => seated[a] # seated[b]
    /\ \A i \in DOMAIN Records :
         /\ Records[i].allocated_student_count = Len(Records[i].roll_list)
         /\ Records[i].allocated_student_count >= 1

\* C19, witness: a subject seated in two records of one group, its roster
\* not in ascending order, ended with a deficit: a proper prefix
C19_Witness ==
  /\ Loaded
  /\ \E i, j \in DOMAIN Records :
       /\ i < j
       /\ SameGroup(Records[i], Records[j])
       /\ Records[i].course_code = Records[j].course_code
       /\ Records[i].roll_list[1] > Records[j].roll_list[1]
       /\ \E k \in DOMAIN subjectLog :
            /\ subjectLog[k].subject_code = Records[i].course_code
            /\ subjectLog[k].group.date = Records[i].date
            /\ subjectLog[k].group.session = Records[i].session
            /\ subjectLog[k].remaining_students > 0

\* A subject of group g ended short of seats, below the iteration ceiling
DeficitBelowCeiling(e) == e.remaining_students > 0 /\ ~e.ceiling

\* C18 (as claimed): in dense mode, once a subject of a group has ended with
\* a deficit without reaching the ceiling, every room of positive adjusted
\* capacity is assigned exactly that capacity in the group.
C18_DenseDeficitIsExhaustion ==
  Loaded /\ mode = "dense" =>
    \A k \in DOMAIN subjectLog :
      DeficitBelowCeiling(subjectLog[k]) =>
        \A r \in Range(RoomSheet) :
          r.examCapacity - buffer > 0 =>
            AssignedToRoom(<<subjectLog[k].group.date, subjectLog[k].group.session>>,
                           r.roomNo) = r.examCapacity - buffer

\* The same when no room's adjusted capacity is negative (buffer <= every
\* exam capacity): there it holds.
DenseDeficitIsExhaustionOfUsableRooms ==
  Loaded /\ mode = "dense" /\ (\A r \in Range(RoomSheet) : r.examCapacity - buffer >= 0) =>
    \A k \in DOMAIN subjectLog :
      DeficitBelowCeiling(subjectLog[k]) =>
        \A r \in Range(RoomSheet) :
          AssignedToRoom(<<subjectLog[k].group.date, subjectLog[k].group.session>>,
                         r.roomNo) = r.examCapacity - buffer

\* The floors of the records the current subject has so far in its group
FloorsSoFar ==
  { Records[i].floor : i \in { k \in DOMAIN Records :
        /\ Records[k].date = group.date
        /\ Records[k].session = group.session
        /\ Records[k].course_code = subject_code } }

\* C20 (as claimed): in dense mode, while all the records of the current
\* subject are on one floor whose total, when the subject's first room was
\* selected, was >= the subject's enrollment (that total is what the floor
\* has left plus the students seated so far), the next selection is on that
\* floor again.
C20_FloorStickiness ==
  Selecting /\ mode = "dense" =>
    \A f \in FloorsSoFar :
      FloorsSoFar = {f}
        /\ FloorTotal(f) + (student_count - remaining_students) >= student_count
      => SelectedFloor = f

\* The records of subject s in group g
RecordsOf(g, s) ==
  { i \in DOMAIN Records : InGroup(Records[i], g) /\ Records[i].course_code = s }

\* C17: the loop makes at most max_iterations passes, a subject has at most
\* max_iterations records in a group, and every subject's loop ended in
\* exactly one of three ways: nobody left, no floor to select, the ceiling
\* (as lines 468-471 report it).
C17_LoopEndsOneWay ==
  /\ iteration <= max_iterations
  /\ \A g \in SessionGroups : \A s \in ScheduledIn(g[1], g[2]) :
       Cardinality(RecordsOf(g, s)) <= max_iterations
  /\ \A k \in DOMAIN subjectLog :
       LET e == subjectLog[k] IN
         \/ e.remaining_students = 0 /\ ~e.no_floor /\ ~e.ceiling
         \/ e.remaining_students # 0 /\ e.no_floor /\ ~e.ceiling
         \/ e.remaining_students # 0 /\ ~e.no_floor /\ e.ceiling

\* What the loop does keep: it always ends, after at most max_iterations
\* passes, zero-seat passes counted; a subject has at most max_iterations
\* records in a group; when the loop has ended, nobody is left, or no floor
\* could be selected, or the ceiling is reported, the first two never
\* together.
LoopEndsWithinCeiling ==
  /\ [](/\ iteration <= max_iterations
        /\ \A g \in SessionGroups : \A s \in ScheduledIn(g[1], g[2]) :
             Cardinality(RecordsOf(g, s)) <= max_iterations
        /\ \A k \in DOMAIN subjectLog :
             LET e == subjectLog[k] IN
               /\ e.remaining_students = 0 \/ e.no_floor \/ e.ceiling
               /\ ~(e.remaining_students = 0 /\ e.no_floor))
  /\ (pc = "loop" ~> pc = "groups")

\* One subject was fully seated by the last pass allowed, so that the
\* ceiling is reported too, and the next one met the ceiling with a student
\* left while the floor still had rooms
SeatedOnLastPass ==
  \E k, l \in DOMAIN subjectLog :
    /\ subjectLog[k].remaining_students = 0
    /\ subjectLog[k].ceiling
    /\ subjectLog[k].student_count = max_iterations
    /\ subjectLog[l].remaining_students > 0
    /\ subjectLog[l].ceiling
    /\ ~subjectLog[l].no_floor

\* Every subject of every session group was submitted to allocation
AllSubmitted ==
  \A g \in SessionGroups : \A s \in ScheduledIn(g[1], g[2]) :
    \E k \in DOMAIN subjectLog :
      /\ subjectLog[k].group.date = g[1]
      /\ subjectLog[k].group.session = g[2]
      /\ subjectLog[k].subject_code = s

DeficitLogged == \E k \in DOMAIN subjectLog : subjectLog[k].remaining_students > 0

\* C12: a deficit does not abort the run: once a subject has ended with
\* students left, by a break or at the ceiling, the run never fails, and
\* it goes on until every subject of every group was submitted and the
\* occupancy summary is made.
C12_DeficitNotFatal ==
  /\ [](DeficitLogged => pc # "failed")
  /\ (DeficitLogged ~> (pc = "done" /\ AllSubmitted
                          /\ seats_left = prepare_seats_left_data(Records)))

\* C12, witness: a finished run in which a subject ended with a deficit and
\* was followed by a subject of the same group and by one of a later group
C12_Witness ==
  /\ pc = "done"
  /\ \E k, l, m \in DOMAIN subjectLog :
       /\ k < l /\ l < m
       /\ subjectLog[k].remaining_students > 0
       /\ subjectLog[l].group = subjectLog[k].group
       /\ subjectLog[m].group # subjectLog[k].group

==========================================================================
